---- MODULE Spec2Model ----
(***************************************************************************)
(* NetworkManager of SoftLayer/managers/network.py.                        *)
(*                                                                         *)
(* The manager keeps no state between invocations: its only fields are the *)
(* client handles and the resolver list set by __init__.  A behaviour is   *)
(* therefore one invocation of one public method on a freshly constructed  *)
(* manager.  The remote service is a black box: what it answers to each    *)
(* call is chosen nondeterministically (a value, or a raised error), and   *)
(* every call the method issues is recorded, in order, with its            *)
(* parameters and the answer it got.                                       *)
(*                                                                         *)
(* Python values: a dict is a function on its keys (a record), so a        *)
(* missing key is a missing field; a list is a sequence; None is the       *)
(* string None_ where a string is expected and the falsy value of the type *)
(* (0, "") where the code only tests truthiness.                           *)
(***************************************************************************)
EXTENDS Integers, Sequences, FiniteSets, TLC

VARIABLES
    op,                 \* name of the method invoked, "none" before the call
    args,               \* the arguments of the invocation
    calls,              \* remote calls issued by the invocation, in order
    outcome,            \* how the invocation ended
    subnet_resolvers    \* self.subnet_resolvers

vars == <<op, args, calls, outcome, subnet_resolvers>>

----------------------------------------------------------------------------
(* Bounds and input domains *)

MaxCatalog == 2         \* longest catalog returned by getItems
MaxVlans == 3           \* longest VLAN list returned by getNetworkVlans
MaxSubnets == 2         \* longest subnet list returned by getSubnets

None_ == "None"

SubnetTypes == {"global", "public", "private"}
Versions == {4, 6}
Quantities == {8}
VlanIds == {1234, 5678}

----------------------------------------------------------------------------
(* Python helpers *)

Has(d, k) == k \in DOMAIN d

\* {}
EmptyDict == [p \in {} |-> None_]

Digits == <<"0", "1", "2", "3", "4", "5", "6", "7", "8", "9">>

\* str(n) for a non-negative integer
RECURSIVE Str(_)
Str(n) == IF n < 10 THEN Digits[n + 1]
          ELSE Str(n \div 10) \o Digits[(n % 10) + 1]

\* sep.join(parts)
RECURSIVE Join(_, _)
Join(sep, parts) ==
    IF parts = <<>> THEN ""
    ELSE IF Len(parts) = 1 THEN parts[1]
    ELSE parts[1] \o sep \o Join(sep, Tail(parts))

\* needle in hay, for strings
Contains(hay, needle) ==
    \E i \in 1..(Len(hay) - Len(needle) + 1) :
        SubSeq(hay, i, i + Len(needle) - 1) = needle

----------------------------------------------------------------------------
(* The remote service *)

\* A value is carried with its Python type: a list, a dict or a bool.
List(l) == [list |-> l]
Object(o) == [object |-> o]
Flag(b) == [flag |-> b]

Returned(v) == [ok |-> TRUE, value |-> v]
Raised == [ok |-> FALSE, error |-> "RemoteError"]

Call(service, method, params, response) ==
    [service |-> service, method |-> method, params |-> params,
     response |-> response]

Return(v) == [kind |-> "return", value |-> v]
ReturnNone == [kind |-> "null"]
Raise(e) == [kind |-> "raise", error |-> e]

\* the outcome of a method that returns what its last remote call answers
Propagate(response) ==
    IF response.ok THEN Return(response.value) ELSE Raise(response.error)

Run(cs, out) == [calls |-> cs, outcome |-> out]

----------------------------------------------------------------------------
(* add_subnet *)

V4Categories == {"global_ipv4", "sov_sec_ip_addresses_pub",
                 "sov_sec_ip_addresses_priv"}
V6Categories == {"global_ipv6", "static_ipv6_addresses"}
Capacities == {"0", "8"}
V6Descriptions == {"Global IPv6", "Portable IPv6"}

\* an item of category c described by d, with each choice of capacity; the
\* service leaves out null fields, so the capacity may be missing
ItemsOf(c, d) ==
    {[itemCategory |-> [categoryCode |-> c], description |-> d]}
    \cup {[itemCategory |-> [categoryCode |-> c], capacity |-> k,
           description |-> d] : k \in Capacities}

\* Catalog items as getItems(mask[itemCategory]) answers them, without their
\* prices.  An item may lack its itemCategory.
ItemBodies ==
    {[description |-> "Static IP"]}
    \cup UNION {ItemsOf(c, "Portable IPv4") : c \in V4Categories}
    \cup UNION {ItemsOf(c, d) : c \in V6Categories, d \in V6Descriptions}

\* Price ids are keys of the catalog: no two items share one.
WithPrices(bodies) ==
    [i \in 1..Len(bodies) |->
        bodies[i] @@ [prices |-> <<[id |-> 10 * i + 1], [id |-> 10 * i + 2]>>]]

Catalogs ==
    {WithPrices(b) : b \in UNION {[1..n -> ItemBodies] : n \in 0..MaxCatalog}}

NoPrice == 0            \* price_id = None; None and 0 are the falsy ids
Unbound == "<unbound>"  \* the local desc before any assignment to it

\* the category chosen by lines 30-41
add_subnet_category(type, version) ==
    IF version = 4
    THEN IF type = "global" THEN "global_ipv4"
         ELSE IF type = "public" THEN "sov_sec_ip_addresses_pub"
         ELSE "sov_sec_ip_addresses_priv"
    ELSE IF type = "global" THEN "global_ipv6"
         ELSE "static_ipv6_addresses"

\* the quantity after lines 31-41, stringified by line 47
add_subnet_quantity(type, quantity) ==
    IF type = "global" THEN Str(0) ELSE Str(quantity)

\* the local desc after lines 31-44
add_subnet_desc(type, version) ==
    IF version = 4 THEN Unbound
    ELSE IF type = "global" THEN "Global"
    ELSE IF type = "public" THEN "Portable"
    ELSE Unbound

\* one iteration of the loop of lines 48-53 on a state [price_id, error]
add_subnet_item(st, item, category, quantity, version, desc) ==
    LET category_code ==
            IF Has(item, "itemCategory")
            THEN IF Has(item.itemCategory, "categoryCode")
                 THEN item.itemCategory.categoryCode
                 ELSE None_
            ELSE None_
    IN  IF category_code # category THEN st
        ELSE IF ~Has(item, "capacity") THEN [st EXCEPT !.error = "KeyError"]
        ELSE IF item.capacity # quantity THEN st
        ELSE IF version = 4 THEN [st EXCEPT !.price_id = item.prices[1].id]
        ELSE IF version # 6 THEN st
        ELSE IF desc = Unbound
             THEN [st EXCEPT !.error = "UnboundLocalError"]
        ELSE IF Contains(item.description, desc)
             THEN [st EXCEPT !.price_id = item.prices[1].id]
        ELSE st

\* the loop of lines 46-53: every item is visited, an error ends the loop
RECURSIVE add_subnet_scan(_, _, _, _, _, _)
add_subnet_scan(st, items, category, quantity, version, desc) ==
    IF items = <<>> \/ st.error # "" THEN st
    ELSE add_subnet_scan(
             add_subnet_item(st, Head(items), category, quantity, version,
                             desc),
             Tail(items), category, quantity, version, desc)

\* the order container of lines 55-62 and 74-75
add_subnet_order(type, vlan_id, price_id) ==
    LET order == [packageId |-> 0,
                  prices |-> <<[id |-> price_id]>>,
                  quantity |-> 1,
                  complexType |->
                      "SoftLayer_Container_Product_Order_Network_Subnet"]
    IN  IF type # "global"
        THEN order @@ [endPointVlanId |-> vlan_id]
        ELSE order

\* add_subnet_func ignoring the test_order flag
add_subnet_func_always_place(test_order) == "placeOrder"

\* lines 67-69
add_subnet_func(test_order) ==
    IF test_order THEN "verifyOrder" ELSE "placeOrder"

add_subnet_run(type, quantity, vlan_id, version, test_order, items, placed) ==
    LET category == add_subnet_category(type, version)
        qty == add_subnet_quantity(type, quantity)
        desc == add_subnet_desc(type, version)
        query == Call("Product_Package", "getItems",
                      [id |-> 0, mask |-> "mask[itemCategory]"], items)
    IN  IF ~items.ok THEN Run(<<query>>, Raise(items.error))
        ELSE
          LET st == add_subnet_scan([price_id |-> NoPrice, error |-> ""],
                                    items.value.list, category, qty, version,
                                    desc)
          IN  IF st.error # "" THEN Run(<<query>>, Raise(st.error))
              ELSE IF st.price_id = NoPrice THEN Run(<<query>>, ReturnNone)
              ELSE Run(<<query,
                         Call("Product_Order", add_subnet_func(test_order),
                              [order |-> add_subnet_order(type, vlan_id,
                                                          st.price_id)],
                              placed)>>,
                       Propagate(placed))

CatalogResponses == {Raised} \cup {Returned(List(c)) : c \in Catalogs}
OrderResponses == {Raised, Returned(Object([orderId |-> 1]))}

add_subnet ==
    /\ op = "none"
    /\ \E type \in SubnetTypes, quantity \in Quantities, vlan_id \in VlanIds,
          version \in Versions, test_order \in BOOLEAN,
          items \in CatalogResponses, placed \in OrderResponses :
          LET r == add_subnet_run(type, quantity, vlan_id, version,
                                  test_order, items, placed)
          IN  /\ op' = "add_subnet"
              /\ args' = [type |-> type, quantity |-> quantity,
                          vlan_id |-> vlan_id, version |-> version,
                          test_order |-> test_order]
              /\ calls' = r.calls
              /\ outcome' = r.outcome
    /\ UNCHANGED subnet_resolvers

----------------------------------------------------------------------------
(* Masks *)

\* 'mask[%s]' % ','.join(parts)
MaskOf(parts) == "mask[" \o Join(",", parts) \o "]"

_get_subnet_mask ==
    <<"hardware", "datacenter", "ipAddressCount", "virtualGuests">>

_get_vlan_mask ==
    MaskOf(<<"firewallInterfaces",
             "hardware",
             "networkComponents",
             "primaryRouter[id, fullyQualifiedDomainName, datacenter]",
             "subnets",
             "totalPrimaryIpAddressCount",
             "virtualGuests">>)

CallerMasks == {"mask[id]"}

----------------------------------------------------------------------------
(* Filters.  A nested mapping is the function from its key paths to the    *)
(* values at its leaves: subnets.datacenter.name is the path               *)
(* <<"subnets", "datacenter", "name">>.                                    *)

\* NestedDict(d): the same mapping, whose missing keys spring into being
NestedDict(d) == d

\* _filter[k1][k2]... = v
SetItem(d, path, v) ==
    [p \in DOMAIN d \cup {path} |-> IF p = path THEN v ELSE d[p]]

\* the remote service's encoding of a match on v
query_filter(v) == [operation |-> v]

\* a caller's filter with the given key paths
FilterOf(paths) ==
    [p \in paths |->
        IF p[Len(p)] \in {"vlanNumber", "version"}
        THEN [operation |-> 1] ELSE [operation |-> "caller"]]

\* the **kwargs a caller may pass: any of mask and filter
KwargsOver(masks, filters) ==
    {EmptyDict}
    \cup {[mask |-> m] : m \in masks}
    \cup {[filter |-> f] : f \in filters}
    \cup {[mask |-> m, filter |-> f] : m \in masks, f \in filters}

\* kwargs.get('filter') or {}
filter_or_empty(kwargs) ==
    IF Has(kwargs, "filter") THEN kwargs.filter ELSE EmptyDict

----------------------------------------------------------------------------
(* VLANs *)

Datacenters == {"dal05", "sjc01"}
VlanNumbers == {3072}
VlanObjectIds == {1234, 5678}

Objects(n) == [i \in 1..n |-> [id |-> i]]

VlanRecord(dc, hw, nc, ip, sn, vg) ==
    [primaryRouter |-> [datacenter |-> [name |-> dc]],
     hardware |-> Objects(hw),
     networkComponents |-> Objects(nc),
     totalPrimaryIpAddressCount |-> ip,
     subnets |-> Objects(sn),
     virtualGuests |-> Objects(vg)]

VlanRecords ==
    {VlanRecord(dc, hw, 1, 4, 0, 2) : dc \in Datacenters, hw \in 1..3}
    \cup {VlanRecord(dc, hw, 0, 5, 2, 1) : dc \in Datacenters, hw \in 1..3}

VlanLists == UNION {[1..n -> VlanRecords] : n \in 0..MaxVlans}

VlanListResponses == {Raised} \cup {Returned(List(l)) : l \in VlanLists}

\* the answers of Network_Vlan getObject
VlanObjectResponses ==
    {Raised} \cup {Returned(Object(v)) : v \in VlanRecords}

\* what a listing whose answer is only passed on may answer
ShortVlanResponses ==
    {Raised, Returned(List(<<>>))}
    \cup {Returned(List(<<v>>)) : v \in VlanRecords}

\* lines 232-241: mask is passed by keyword next to **kwargs, so a mask in
\* kwargs is a second value for the same keyword and the call is never made
_get_vlans(kwargs, listed) ==
    IF Has(kwargs, "mask") THEN Run(<<>>, Raise("TypeError"))
    ELSE Run(<<Call("Account", "getNetworkVlans",
                    [mask |-> _get_vlan_mask] @@ kwargs, listed)>>,
             Propagate(listed))

\* list_vlans_filter starting from an empty filter
list_vlans_filter_fresh(datacenter, vlan_number, kwargs) ==
    LET f1 == IF vlan_number # 0
              THEN SetItem(EmptyDict, <<"networkVlans", "vlanNumber">>,
                           query_filter(vlan_number))
              ELSE EmptyDict
    IN  IF datacenter # ""
        THEN SetItem(f1, <<"networkVlans", "primaryRouter", "datacenter",
                           "name">>, query_filter(datacenter))
        ELSE f1

\* lines 140-149
list_vlans_filter(datacenter, vlan_number, kwargs) ==
    LET f0 == NestedDict(filter_or_empty(kwargs))
        f1 == IF vlan_number # 0
              THEN SetItem(f0, <<"networkVlans", "vlanNumber">>,
                           query_filter(vlan_number))
              ELSE f0
    IN  IF datacenter # ""
        THEN SetItem(f1, <<"networkVlans", "primaryRouter", "datacenter",
                           "name">>, query_filter(datacenter))
        ELSE f1

list_vlans_run(datacenter, vlan_number, kwargs, listed) ==
    _get_vlans([filter |-> list_vlans_filter(datacenter, vlan_number, kwargs)]
               @@ kwargs, listed)

\* get_vlan_run looking the VLAN up before fetching it
get_vlan_run_with_lookup(id, fetched) ==
    Run(<<Call("Account", "getNetworkVlans",
               [mask |-> "id"], Returned(List(<<>>))),
          Call("Network_Vlan", "getObject",
               [id |-> id.int, mask |-> _get_vlan_mask], fetched)>>,
        Propagate(fetched))

get_vlan_run(id, fetched) ==
    Run(<<Call("Network_Vlan", "getObject",
               [id |-> id.int, mask |-> _get_vlan_mask], fetched)>>,
        Propagate(fetched))

ZeroCounts ==
    [hardwareCount |-> 0, networkingCount |-> 0, primaryIpCount |-> 0,
     subnetCount |-> 0, virtualGuestCount |-> 0, vlanCount |-> 0]

\* summary_add counting one per VLAN where it should add the size
summary_add_counting_vlans(datacenters, vlan) ==
    LET name == vlan.primaryRouter.datacenter.name
        d == IF name \in DOMAIN datacenters THEN datacenters
             ELSE [n \in DOMAIN datacenters \cup {name} |->
                      IF n = name THEN ZeroCounts ELSE datacenters[n]]
    IN  [d EXCEPT ![name] =
            [vlanCount |-> @.vlanCount + 1,
             hardwareCount |-> @.hardwareCount + 1,
             networkingCount |->
                 @.networkingCount + Len(vlan.networkComponents),
             primaryIpCount |->
                 @.primaryIpCount + vlan.totalPrimaryIpAddressCount,
             subnetCount |-> @.subnetCount + Len(vlan.subnets),
             virtualGuestCount |->
                 @.virtualGuestCount + Len(vlan.virtualGuests)]]

\* one iteration of the loop of lines 198-219
summary_add(datacenters, vlan) ==
    LET dc == vlan.primaryRouter.datacenter
        name == dc.name
        d == IF name \in DOMAIN datacenters THEN datacenters
             ELSE [n \in DOMAIN datacenters \cup {name} |->
                      IF n = name THEN ZeroCounts ELSE datacenters[n]]
    IN  [d EXCEPT ![name] =
            [vlanCount |-> @.vlanCount + 1,
             hardwareCount |-> @.hardwareCount + Len(vlan.hardware),
             networkingCount |->
                 @.networkingCount + Len(vlan.networkComponents),
             primaryIpCount |->
                 @.primaryIpCount + vlan.totalPrimaryIpAddressCount,
             subnetCount |-> @.subnetCount + Len(vlan.subnets),
             virtualGuestCount |->
                 @.virtualGuestCount + Len(vlan.virtualGuests)]]

RECURSIVE summary_loop(_, _)
summary_loop(datacenters, vlans) ==
    IF vlans = <<>> THEN datacenters
    ELSE summary_loop(summary_add(datacenters, Head(vlans)), Tail(vlans))

summary_by_datacenter_run(listed) ==
    LET r == _get_vlans(EmptyDict, listed)
    IN  IF r.outcome.kind = "raise" THEN r
        ELSE Run(r.calls,
                 Return(Object(summary_loop(EmptyDict,
                                            r.outcome.value.list))))

VlanFilters ==
    {FilterOf(ps) : ps \in SUBSET {<<"networkVlans", "id">>,
                                   <<"networkVlans", "vlanNumber">>,
                                   <<"networkVlans", "primaryRouter", "id">>}}

list_vlans ==
    /\ op = "none"
    /\ \E datacenter \in Datacenters \cup {""},
          vlan_number \in VlanNumbers \cup {0},
          kwargs \in KwargsOver(CallerMasks, VlanFilters),
          listed \in ShortVlanResponses :
          LET r == list_vlans_run(datacenter, vlan_number, kwargs, listed)
          IN  /\ op' = "list_vlans"
              /\ args' = [datacenter |-> datacenter,
                          vlan_number |-> vlan_number, kwargs |-> kwargs]
              /\ calls' = r.calls
              /\ outcome' = r.outcome
    /\ UNCHANGED subnet_resolvers

get_vlan ==
    /\ op = "none"
    /\ \E id \in {[int |-> i] : i \in VlanObjectIds},
          fetched \in VlanObjectResponses :
          LET r == get_vlan_run(id, fetched)
          IN  /\ op' = "get_vlan"
              /\ args' = [id |-> id]
              /\ calls' = r.calls
              /\ outcome' = r.outcome
    /\ UNCHANGED subnet_resolvers

summary_by_datacenter ==
    /\ op = "none"
    /\ \E listed \in VlanListResponses :
          LET r == summary_by_datacenter_run(listed)
          IN  /\ op' = "summary_by_datacenter"
              /\ args' = EmptyDict
              /\ calls' = r.calls
              /\ outcome' = r.outcome
    /\ UNCHANGED subnet_resolvers

----------------------------------------------------------------------------
(* Subnets *)

SubnetIds == {101, 102}
BillingIds == {9001, 9002}
Identifiers == {"10.0.0.0"}
IpVersions == {4, 6}

\* an id argument is a number or a network identifier string
IdArguments == {[int |-> i] : i \in SubnetIds}
               \cup {[name |-> n] : n \in Identifiers}

\* the answers of getSubnets: lists of subnets
SubnetLists ==
    UNION {[1..n -> {[id |-> i] : i \in SubnetIds}] : n \in 0..MaxSubnets}
SubnetListResponses == {Raised} \cup {Returned(List(l)) : l \in SubnetLists}

\* the answers of Network_Subnet getObject: a subnet, billed or not
SubnetObjects ==
    {[id |-> i] : i \in SubnetIds}
    \cup {[id |-> i, billingItem |-> [id |-> b]]
            : i \in SubnetIds, b \in BillingIds}
SubnetResponses == {Raised} \cup {Returned(Object(o)) : o \in SubnetObjects}

CancelResponses == {Raised, Returned(Flag(TRUE))}

\* lines 165-179
list_subnets_filter(identifier, datacenter, version, kwargs) ==
    LET f0 == NestedDict(filter_or_empty(kwargs))
        f1 == IF identifier # ""
              THEN SetItem(f0, <<"subnets", "networkIdentifier">>,
                           query_filter(identifier))
              ELSE f0
        f2 == IF datacenter # ""
              THEN SetItem(f1, <<"subnets", "datacenter", "name">>,
                           query_filter(datacenter))
              ELSE f1
    IN  IF version # 0
        THEN SetItem(f2, <<"subnets", "version">>, query_filter(version))
        ELSE f2

list_subnets_mask(kwargs) ==
    IF ~Has(kwargs, "mask") THEN MaskOf(_get_subnet_mask) ELSE kwargs.mask

list_subnets_run(identifier, datacenter, version, kwargs, listed) ==
    Run(<<Call("Account", "getSubnets",
               [mask |-> list_subnets_mask(kwargs),
                filter |-> list_subnets_filter(identifier, datacenter,
                                               version, kwargs)],
               listed)>>,
        Propagate(listed))

\* lines 229-230: the ids of the subnets the identifier names
_get_subnet_by_identifier(identifier, listed) ==
    LET r == list_subnets_run(identifier, "", 0, [mask |-> "id"], listed)
    IN  IF r.outcome.kind = "raise" THEN r
        ELSE Run(r.calls,
                 Return(List([i \in 1..Len(r.outcome.value.list) |->
                                 r.outcome.value.list[i].id])))

\* resolve_ids(id, resolvers): a number is its own id; anything else is
\* handed to the resolvers in turn, and the first non-empty answer is taken
RECURSIVE resolve_ids(_, _, _)
resolve_ids(id, resolvers, listed) ==
    IF Has(id, "int") THEN Run(<<>>, Return(List(<<id.int>>)))
    ELSE IF resolvers = <<>> THEN Run(<<>>, Return(List(<<>>)))
    ELSE LET r == _get_subnet_by_identifier(id.name, listed)
         IN  IF r.outcome.kind = "raise" \/ r.outcome.value.list # <<>>
             THEN r
             ELSE LET rest == resolve_ids(id, Tail(resolvers), listed)
                  IN  Run(r.calls \o rest.calls, rest.outcome)

get_subnet_mask(kwargs) ==
    IF ~Has(kwargs, "mask") THEN MaskOf(_get_subnet_mask) ELSE kwargs.mask

\* get_subnet_id taking the last id
get_subnet_id_last(ids) == ids[Len(ids)]

\* line 124: resolve_ids(...)[0]
get_subnet_id(ids) == ids[1]

\* lines 121-125
get_subnet_run(id, kwargs, resolvers, listed, fetched) ==
    LET r == resolve_ids(id, resolvers, listed)
    IN  IF r.outcome.kind = "raise" THEN r
        ELSE IF r.outcome.value.list = <<>>
             THEN Run(r.calls, Raise("IndexError"))
        ELSE Run(Append(r.calls,
                        Call("Network_Subnet", "getObject",
                             [id |-> get_subnet_id(r.outcome.value.list),
                              mask |-> get_subnet_mask(kwargs)],
                             fetched)),
                 Propagate(fetched))

\* cancel_subnet_billing_id taking the subnet's own id
cancel_subnet_billing_id_of_subnet(subnet) == subnet.id

\* line 84
cancel_subnet_billing_id(subnet) == subnet.billingItem.id

\* lines 83-87
cancel_subnet_run(id, resolvers, listed, fetched, cancelled) ==
    LET r == get_subnet_run(id, [mask |-> "mask[id, billingItem.id]"],
                            resolvers, listed, fetched)
    IN  IF r.outcome.kind = "raise" THEN r
        ELSE IF ~Has(r.outcome.value.object, "billingItem")
             THEN Run(r.calls, Raise("KeyError"))
        ELSE Run(Append(r.calls,
                        Call("Billing_Item", "cancelService",
                             [id |-> cancel_subnet_billing_id(
                                         r.outcome.value.object)],
                             cancelled)),
                 Propagate(cancelled))

\* lines 96-102
ip_lookup_run(ip, found) ==
    Run(<<Call("Network_Subnet_IpAddress", "getByIpAddress",
               [ip |-> ip, mask |-> MaskOf(<<"hardware", "virtualGuest">>)],
               found)>>,
        Propagate(found))

SubnetFilters ==
    {FilterOf(ps) : ps \in SUBSET {<<"subnets", "id">>,
                                   <<"subnets", "version">>,
                                   <<"subnets", "datacenter", "id">>}}

IpAddresses == {"10.0.0.1", "2001:db8::1"}
IpResponses ==
    {Raised}
    \cup {Returned(Object([ipAddress |-> a])) : a \in IpAddresses}
    \cup {Returned(Object([ipAddress |-> a, subnetId |-> i]))
            : a \in IpAddresses, i \in SubnetIds}

list_subnets ==
    /\ op = "none"
    /\ \E identifier \in Identifiers \cup {""},
          datacenter \in Datacenters \cup {""},
          version \in IpVersions \cup {0},
          kwargs \in KwargsOver(CallerMasks, SubnetFilters),
          listed \in SubnetListResponses :
          LET r == list_subnets_run(identifier, datacenter, version, kwargs,
                                    listed)
          IN  /\ op' = "list_subnets"
              /\ args' = [identifier |-> identifier,
                          datacenter |-> datacenter, version |-> version,
                          kwargs |-> kwargs]
              /\ calls' = r.calls
              /\ outcome' = r.outcome
    /\ UNCHANGED subnet_resolvers

get_subnet ==
    /\ op = "none"
    /\ \E id \in IdArguments,
          kwargs \in KwargsOver(CallerMasks, {}),
          listed \in SubnetListResponses,
          fetched \in SubnetResponses :
          LET r == get_subnet_run(id, kwargs, subnet_resolvers, listed,
                                  fetched)
          IN  /\ op' = "get_subnet"
              /\ args' = [id |-> id, kwargs |-> kwargs]
              /\ calls' = r.calls
              /\ outcome' = r.outcome
    /\ UNCHANGED subnet_resolvers

cancel_subnet ==
    /\ op = "none"
    /\ \E id \in IdArguments,
          listed \in SubnetListResponses,
          fetched \in SubnetResponses,
          cancelled \in CancelResponses :
          LET r == cancel_subnet_run(id, subnet_resolvers, listed, fetched,
                                     cancelled)
          IN  /\ op' = "cancel_subnet"
              /\ args' = [id |-> id]
              /\ calls' = r.calls
              /\ outcome' = r.outcome
    /\ UNCHANGED subnet_resolvers

ip_lookup ==
    /\ op = "none"
    /\ \E ip \in IpAddresses, found \in IpResponses :
          LET r == ip_lookup_run(ip, found)
          IN  /\ op' = "ip_lookup"
              /\ args' = [ip |-> ip]
              /\ calls' = r.calls
              /\ outcome' = r.outcome
    /\ UNCHANGED subnet_resolvers

----------------------------------------------------------------------------

Init ==
    /\ op = "none"
    /\ args = EmptyDict
    /\ calls = <<>>
    /\ outcome = [kind |-> "none"]
    /\ subnet_resolvers = <<"_get_subnet_by_identifier">>

Next ==
    \/ add_subnet
    \/ cancel_subnet
    \/ ip_lookup
    \/ get_vlan
    \/ get_subnet
    \/ list_vlans
    \/ list_subnets
    \/ summary_by_datacenter

Spec == Init /\ [][Next]_vars

----------------------------------------------------------------------------
(* Properties *)

IsCall(c, service, method) == c.service = service /\ c.method = method

OrderCalls == {i \in DOMAIN calls : calls[i].service = "Product_Order"}

\* the catalog the invocation of add_subnet was answered
CatalogReturned ==
    /\ op = "add_subnet"
    /\ calls # <<>>
    /\ calls[1].response.ok
Catalog == calls[1].response.value.list

\* the table of section 4.1 of the specification
Table ==
    {[version |-> 4, type |-> "global", category |-> "global_ipv4",
      zero |-> TRUE, filtered |-> FALSE, desc |-> ""],
     [version |-> 4, type |-> "public",
      category |-> "sov_sec_ip_addresses_pub",
      zero |-> FALSE, filtered |-> FALSE, desc |-> ""],
     [version |-> 4, type |-> "private",
      category |-> "sov_sec_ip_addresses_priv",
      zero |-> FALSE, filtered |-> FALSE, desc |-> ""],
     [version |-> 6, type |-> "global", category |-> "global_ipv6",
      zero |-> TRUE, filtered |-> TRUE, desc |-> "Global"],
     [version |-> 6, type |-> "public", category |-> "static_ipv6_addresses",
      zero |-> FALSE, filtered |-> TRUE, desc |-> "Portable"],
     [version |-> 6, type |-> "private",
      category |-> "static_ipv6_addresses",
      zero |-> FALSE, filtered |-> FALSE, desc |-> ""]}

Row == CHOOSE r \in Table : r.version = args.version /\ r.type = args.type

\* item matches the row of the table the arguments select
TableMatch(item) ==
    /\ Has(item, "itemCategory")
    /\ item.itemCategory.categoryCode = Row.category
    /\ Has(item, "capacity")
    /\ item.capacity = (IF Row.zero THEN "0" ELSE Str(args.quantity))
    /\ Row.filtered => Contains(item.description, Row.desc)

Matching == {i \in DOMAIN Catalog : TableMatch(Catalog[i])}

\* every item that carries a category carries a capacity
CapacitiesPresent ==
    \A i \in DOMAIN Catalog :
        Has(Catalog[i], "itemCategory") => Has(Catalog[i], "capacity")

\* C1: for every row of the table add_subnet selects by the tabulated
\* category, quantity and description filter; in particular for IPv6 with
\* a type other than global and public an item matching category and
\* capacity is selected whatever its description, and the call raises no
\* error of its own: an order for a matching item is submitted.  (Stated for
\* catalogs whose items all carry a capacity.)
C1_TableSelection ==
    (CatalogReturned /\ CapacitiesPresent /\ Matching # {}) =>
        /\ Len(calls) = 2
        /\ \E i \in Matching :
              calls[2].params.order.prices[1].id = Catalog[i].prices[1].id

\* C2: the order add_subnet submits has packageId 0, one price line,
\* quantity 1 and the fixed complexType; it carries endPointVlanId, equal
\* to vlan_id, iff type is not global; it goes through verifyOrder iff
\* test_order is set and through placeOrder iff it is not.
C2_OrderShape ==
    op = "add_subnet" =>
        \A i \in OrderCalls :
            LET order == calls[i].params.order
            IN  /\ order.packageId = 0
                /\ Len(order.prices) = 1
                /\ order.quantity = 1
                /\ order.complexType =
                       "SoftLayer_Container_Product_Order_Network_Subnet"
                /\ Has(order, "endPointVlanId") <=> args.type # "global"
                /\ Has(order, "endPointVlanId") =>
                       order.endPointVlanId = args.vlan_id
                /\ calls[i].method = "verifyOrder" <=> args.test_order
                /\ calls[i].method = "placeOrder" <=> ~args.test_order

C2_Witness ==
    /\ op = "add_subnet"
    /\ args.test_order
    /\ args.type = "public"
    /\ \E i \in OrderCalls :
          /\ calls[i].method = "verifyOrder"
          /\ calls[i].params.order.endPointVlanId = args.vlan_id

\* C3: when no catalog item matches category and capacity (and description
\* for IPv6), add_subnet returns None, raises nothing and submits no order,
\* whatever the catalog holds.
C3_NullWhenNoMatch ==
    (CatalogReturned /\ Matching = {}) =>
        /\ outcome.kind = "null"
        /\ OrderCalls = {}

\* C10: when several items match, the order is for the first price of the
\* first matching item in catalog order.  (Stated for catalogs whose items
\* all carry a capacity.)
C10_FirstMatch ==
    (CatalogReturned /\ CapacitiesPresent /\ Len(calls) = 2) =>
        \E i \in Matching :
            /\ \A j \in Matching : i <= j
            /\ calls[2].params.order.prices[1].id = Catalog[i].prices[1].id

SingleCallOps ==
    {"cancel_subnet", "ip_lookup", "get_vlan", "get_subnet", "list_vlans",
     "list_subnets", "summary_by_datacenter"}

\* no remote call of the invocation raised
NoRemoteError == \A i \in DOMAIN calls : calls[i].response.ok

\* C4 as stated: every public operation issues exactly one remote call,
\* except add_subnet, which issues exactly two, the catalog query and then
\* the order call.  (Stated for invocations none of whose remote calls
\* raises.)
C4_OneCallEach ==
    NoRemoteError =>
        /\ op \in SingleCallOps => Len(calls) = 1
        /\ op = "add_subnet" =>
              /\ Len(calls) = 2
              /\ IsCall(calls[1], "Product_Package", "getItems")
              /\ calls[2].service = "Product_Order"

\* the calls of get_subnet: the fetch alone for a number; for an identifier
\* the lookup, followed by the fetch iff the lookup answered a subnet
GetSubnetCalls(id) ==
    IF Has(id, "int")
    THEN /\ Len(calls) >= 1
         /\ IsCall(calls[1], "Network_Subnet", "getObject")
    ELSE /\ Len(calls) >= 1
         /\ IsCall(calls[1], "Account", "getSubnets")
         /\ IF /\ calls[1].response.ok
               /\ calls[1].response.value.list # <<>>
            THEN /\ Len(calls) >= 2
                 /\ IsCall(calls[2], "Network_Subnet", "getObject")
            ELSE Len(calls) = 1

\* the index of the fetch among the calls of get_subnet
FetchIndex(id) == IF Has(id, "int") THEN 1 ELSE 2

\* C4 amended: ip_lookup, get_vlan, list_subnets and summary_by_datacenter
\* issue exactly one remote call; list_vlans issues one, and none when the
\* caller passes a mask; get_subnet issues the fetch alone for a numeric id
\* and, for an identifier, the lookup followed by the fetch iff the lookup
\* answered a subnet; cancel_subnet issues the calls of get_subnet followed
\* by one cancelService iff the fetch answered a subnet with a billing
\* item; add_subnet issues the catalog query followed by one order call iff
\* the query answered and the scan of the catalog selected a price (it
\* neither found none nor failed).
C4_CallCounts ==
    /\ op \in {"ip_lookup", "get_vlan", "list_subnets",
               "summary_by_datacenter"} => Len(calls) = 1
    /\ op = "list_vlans" =>
          Len(calls) = (IF Has(args.kwargs, "mask") THEN 0 ELSE 1)
    /\ op = "get_subnet" =>
          /\ GetSubnetCalls(args.id)
          /\ Len(calls) <= FetchIndex(args.id)
    /\ op = "cancel_subnet" =>
          /\ GetSubnetCalls(args.id)
          /\ LET n == FetchIndex(args.id)
             IN  IF /\ Len(calls) >= n
                    /\ calls[n].response.ok
                    /\ Has(calls[n].response.value.object, "billingItem")
                 THEN /\ Len(calls) = n + 1
                      /\ IsCall(calls[n + 1], "Billing_Item", "cancelService")
                 ELSE Len(calls) <= n
    /\ op = "add_subnet" =>
          /\ Len(calls) \in {1, 2}
          /\ IsCall(calls[1], "Product_Package", "getItems")
          /\ Len(calls) = 2 <=>
                /\ calls[1].response.ok
                /\ outcome.kind # "null"
                /\ ~(/\ outcome.kind = "raise"
                     /\ outcome.error \in {"KeyError", "UnboundLocalError"})
          /\ Len(calls) = 2 => calls[2].service = "Product_Order"

C4_Witness ==
    /\ op = "cancel_subnet"
    /\ Len(calls) = 3
    /\ IsCall(calls[1], "Account", "getSubnets")
    /\ IsCall(calls[2], "Network_Subnet", "getObject")
    /\ IsCall(calls[3], "Billing_Item", "cancelService")

CancelCalls ==
    {i \in DOMAIN calls : IsCall(calls[i], "Billing_Item", "cancelService")}

\* C5: cancel_subnet calls cancelService at most once, only after the
\* subnet fetch has returned, with the id under the fetched subnet's
\* billingItem.id; when the fetched subnet has no billing item the
\* operation fails and cancelService is not called.
C5_CancelBillingItem ==
    op = "cancel_subnet" =>
        /\ Cardinality(CancelCalls) <= 1
        /\ \A i \in CancelCalls :
              /\ i > 1
              /\ IsCall(calls[i - 1], "Network_Subnet", "getObject")
              /\ calls[i - 1].response.ok
              /\ Has(calls[i - 1].response.value.object, "billingItem")
              /\ calls[i].params.id =
                     calls[i - 1].response.value.object.billingItem.id
        /\ \A j \in DOMAIN calls :
              (/\ IsCall(calls[j], "Network_Subnet", "getObject")
               /\ calls[j].response.ok
               /\ ~Has(calls[j].response.value.object, "billingItem"))
              => (outcome.kind = "raise" /\ CancelCalls = {})

C5_Witness ==
    /\ op = "cancel_subnet"
    /\ \E i \in CancelCalls :
          /\ calls[i - 1].response.value.object.id = 101
          /\ calls[i].params.id = 9002

FetchCalls ==
    {i \in DOMAIN calls : IsCall(calls[i], "Network_Subnet", "getObject")}

\* C6: for an identifier that is not a number get_subnet first looks the
\* subnet up (getSubnets filtered on networkIdentifier) and fetches the
\* object only after, with the id the lookup returned; for a number it
\* issues the fetch alone, with that number.
C6_ResolveThenFetch ==
    op = "get_subnet" =>
        IF Has(args.id, "int")
        THEN /\ Len(calls) = 1
             /\ FetchCalls = {1}
             /\ calls[1].params.id = args.id.int
        ELSE /\ Len(calls) >= 1
             /\ IsCall(calls[1], "Account", "getSubnets")
             /\ <<"subnets", "networkIdentifier">>
                    \in DOMAIN calls[1].params.filter
             /\ calls[1].params.filter[<<"subnets", "networkIdentifier">>]
                    = [operation |-> args.id.name]
             /\ \A i \in FetchCalls :
                   /\ i = 2
                   /\ calls[1].response.ok
                   /\ calls[1].response.value.list # <<>>
                   /\ calls[i].params.id =
                          calls[1].response.value.list[1].id

C6_Witness ==
    /\ op = "get_subnet"
    /\ Has(args.id, "name")
    /\ Len(calls) = 2
    /\ Len(calls[1].response.value.list) = 2
    /\ calls[1].response.value.list[1].id = 102
    /\ calls[1].response.value.list[2].id = 101
    /\ calls[2].params.id = 102

\* the filter the caller passed, none and None counting as empty
CallerFilter ==
    IF Has(args.kwargs, "filter") THEN args.kwargs.filter ELSE EmptyDict

\* the key paths of the criteria the caller supplied
CriteriaPaths ==
    IF op = "list_vlans"
    THEN (IF args.vlan_number # 0
          THEN {<<"networkVlans", "vlanNumber">>} ELSE {})
         \cup (IF args.datacenter # ""
               THEN {<<"networkVlans", "primaryRouter", "datacenter",
                       "name">>}
               ELSE {})
    ELSE (IF args.identifier # ""
          THEN {<<"subnets", "networkIdentifier">>} ELSE {})
         \cup (IF args.datacenter # ""
               THEN {<<"subnets", "datacenter", "name">>} ELSE {})
         \cup (IF args.version # 0 THEN {<<"subnets", "version">>} ELSE {})

ListCalls ==
    {i \in DOMAIN calls :
        \/ IsCall(calls[i], "Account", "getNetworkVlans")
        \/ IsCall(calls[i], "Account", "getSubnets")}

\* C7: the filter list_vlans and list_subnets send holds every key path of
\* the caller's filter and every key path of a supplied criterion, and no
\* other; the caller's entries that no criterion names keep their values;
\* with no criterion the filter sent is the caller's.
C7_FiltersMerged ==
    op \in {"list_vlans", "list_subnets"} =>
        \A i \in ListCalls :
            LET sent == calls[i].params.filter
            IN  /\ DOMAIN CallerFilter \subseteq DOMAIN sent
                /\ CriteriaPaths \subseteq DOMAIN sent
                /\ DOMAIN sent = DOMAIN CallerFilter \cup CriteriaPaths
                /\ \A p \in DOMAIN CallerFilter \ CriteriaPaths :
                      sent[p] = CallerFilter[p]
                /\ CriteriaPaths = {} => sent = CallerFilter

C7_Witness ==
    /\ op = "list_vlans"
    /\ args.vlan_number # 0
    /\ args.datacenter # ""
    /\ DOMAIN CallerFilter = {<<"networkVlans", "id">>,
                              <<"networkVlans", "primaryRouter", "id">>}
    /\ \E i \in ListCalls : Cardinality(DOMAIN calls[i].params.filter) = 4

SubnetMaskText == "mask[hardware,datacenter,ipAddressCount,virtualGuests]"
VlanMaskText ==
    "mask[firewallInterfaces,hardware,networkComponents,"
    \o "primaryRouter[id, fullyQualifiedDomainName, datacenter],"
    \o "subnets,totalPrimaryIpAddressCount,virtualGuests]"

\* C8: get_subnet, list_subnets and list_vlans send the standard mask when
\* the caller passes none; when the caller passes a mask the remote call is
\* issued and carries that mask.
C8_Masks ==
    /\ op = "list_subnets" =>
          /\ Len(calls) = 1
          /\ calls[1].params.mask =
                (IF Has(args.kwargs, "mask") THEN args.kwargs.mask
                 ELSE SubnetMaskText)
    /\ op = "get_subnet" =>
          \A i \in FetchCalls :
              calls[i].params.mask =
                 (IF Has(args.kwargs, "mask") THEN args.kwargs.mask
                  ELSE SubnetMaskText)
    /\ op = "list_vlans" =>
          /\ Len(calls) = 1
          /\ calls[1].params.mask =
                (IF Has(args.kwargs, "mask") THEN args.kwargs.mask
                 ELSE VlanMaskText)

\* sum of the values of a function with a finite domain
RECURSIVE SumOf(_)
SumOf(f) ==
    IF DOMAIN f = {} THEN 0
    ELSE LET x == CHOOSE x \in DOMAIN f : TRUE
         IN  f[x] + SumOf([y \in DOMAIN f \ {x} |-> f[y]])

\* C9: the summary is keyed by exactly the datacenter names of the VLANs
\* returned, and for each name counts its VLANs, sums the sizes of their
\* hardware, networkComponents, subnets and virtualGuests collections and
\* sums their totalPrimaryIpAddressCount.
C9_SummaryByDatacenter ==
    (op = "summary_by_datacenter" /\ outcome.kind = "return") =>
        LET vlans == calls[1].response.value.list
            summary == outcome.value.object
            In(name) == {i \in DOMAIN vlans :
                            vlans[i].primaryRouter.datacenter.name = name}
        IN  /\ DOMAIN summary =
                   {vlans[i].primaryRouter.datacenter.name : i \in DOMAIN vlans}
            /\ \A name \in DOMAIN summary :
                  /\ summary[name].vlanCount = Cardinality(In(name))
                  /\ summary[name].hardwareCount =
                        SumOf([i \in In(name) |-> Len(vlans[i].hardware)])
                  /\ summary[name].networkingCount =
                        SumOf([i \in In(name) |->
                                  Len(vlans[i].networkComponents)])
                  /\ summary[name].subnetCount =
                        SumOf([i \in In(name) |-> Len(vlans[i].subnets)])
                  /\ summary[name].virtualGuestCount =
                        SumOf([i \in In(name) |->
                                  Len(vlans[i].virtualGuests)])
                  /\ summary[name].primaryIpCount =
                        SumOf([i \in In(name) |->
                                  vlans[i].totalPrimaryIpAddressCount])

\* the example: dal05 VLANs with 2 and 3 hardware, one sjc01 VLAN with 1
C9_Witness ==
    /\ op = "summary_by_datacenter"
    /\ outcome.kind = "return"
    /\ LET vlans == calls[1].response.value.list
       IN  /\ Len(vlans) = 3
           /\ vlans[1].primaryRouter.datacenter.name = "dal05"
           /\ Len(vlans[1].hardware) = 2
           /\ vlans[2].primaryRouter.datacenter.name = "sjc01"
           /\ Len(vlans[2].hardware) = 1
           /\ vlans[3].primaryRouter.datacenter.name = "dal05"
           /\ Len(vlans[3].hardware) = 3
    /\ DOMAIN outcome.value.object = {"dal05", "sjc01"}
    /\ outcome.value.object["dal05"].hardwareCount = 5
    /\ outcome.value.object["dal05"].vlanCount = 2
    /\ outcome.value.object["sjc01"].hardwareCount = 1
    /\ outcome.value.object["sjc01"].vlanCount = 1

====
